---- MODULE Spec2Model ----
(***************************************************************************)
(* Model of the isochrone router of packages/router-core                   *)
(* (IsochroneRouter::solve, solveInternal, the geodesy helpers,            *)
(* crossTrackDistance and dpSimplifyRecursive).                            *)
(*                                                                         *)
(* Numbers.  The C++ code computes in double.  The model computes in       *)
(* fixed point, one decimal: lengths and positions in tenths of a nautical *)
(* mile (a tenth of an arc minute along the equator), speeds in tenths of  *)
(* a knot, depths and wave heights in decimetres, times in minutes, angles *)
(* in whole degrees that are multiples of 5, complexity and the adaptive   *)
(* factor in thousandths.  Products and quotients are rounded to nearest.  *)
(* Trigonometry is tabulated (thousandths) and the sphere is taken near    *)
(* the equator, where the haversine and the forward geodesic reduce to the *)
(* plane chart (dlat, dlon) with dlon wrapped into [-PI, PI].  EPS (1e-6)  *)
(* is below the resolution, so x + EPS < y reads x < y.                    *)
(***************************************************************************)
EXTENDS Integers, Sequences, FiniteSets, TLC

\* ------------------------------------------------------------ arithmetic

Abs(x) == IF x < 0 THEN -x ELSE x

Max2(a, b) == IF a < b THEN b ELSE a

Min2(a, b) == IF b < a THEN b ELSE a

\* a / b rounded to nearest, b > 0 (the model's double division)
RoundDiv(a, b) == (2 * a + b) \div (2 * b)

\* ceil(a / b), b > 0
CeilDiv(a, b) == -((-a) \div b)

\* static_cast<int>(a / b): truncation toward zero, b > 0
TruncDiv(a, b) == IF a >= 0 THEN a \div b ELSE -((-a) \div b)

RECURSIVE SqrtSearch(_, _, _)
SqrtSearch(n, lo, hi) ==
    IF lo >= hi THEN lo
    ELSE LET mid == (lo + hi + 1) \div 2
         IN  IF mid * mid <= n THEN SqrtSearch(n, mid, hi)
                               ELSE SqrtSearch(n, lo, mid - 1)

\* std::sqrt on a non-negative fixed-point number, rounded down
ISqrt(n) == SqrtSearch(n, 0, 40000)

\* safeHypot; legs beyond 3000 nm are computed in units of 0.8 nm, to stay
\* within the range of the model's integers
safeHypot(a, b) ==
    IF Abs(a) <= 30000 /\ Abs(b) <= 30000
    THEN ISqrt(a * a + b * b)
    ELSE 8 * ISqrt((Abs(a) \div 8) * (Abs(a) \div 8)
                       + (Abs(b) \div 8) * (Abs(b) \div 8))

\* IsochroneRouter::clamp
clamp(value, min_value, max_value) ==
    IF value < min_value THEN min_value
    ELSE IF value > max_value THEN max_value
    ELSE value

\* ------------------------------------------------------------ constants

\* half a turn of longitude, the model's PI: 180 degrees = 10800 arc minutes
PI == 108000

\* quiet_NaN as a heading: a value no heading takes
NaN == -1000

\* HazardFlags
NONE == 0

HIGH_WAVE == 1

\* std::numeric_limits<double>::max() as an arrival time
DBL_MAX == 1000000

\* the range of int
INT_MAX == 2147483647

INT_MIN == -INT_MAX - 1

\* ------------------------------------------------------------ trigonometry

\* sin of 0, 5, ..., 90 degrees, in thousandths
SinTable ==
    << 0, 87, 174, 259, 342, 423, 500, 574, 643, 707,
       766, 819, 866, 906, 940, 966, 985, 996, 1000 >>

\* std::sin(degToRad(deg)) for deg a multiple of 5, in thousandths
Sin1000(deg) ==
    LET d == deg % 360
    IN  IF d <= 90 THEN SinTable[(d \div 5) + 1]
        ELSE IF d <= 180 THEN SinTable[((180 - d) \div 5) + 1]
        ELSE IF d <= 270 THEN -SinTable[((d - 180) \div 5) + 1]
        ELSE -SinTable[((360 - d) \div 5) + 1]

\* std::cos(degToRad(deg)) for deg a multiple of 5, in thousandths
Cos1000(deg) == Sin1000(deg + 90)

\* tan of 2.5, 7.5, ..., 42.5 degrees, in thousandths: the boundaries
\* between the multiples of 5 degrees of the first octant
TanBounds == << 44, 132, 222, 315, 414, 521, 637, 767, 916 >>

\* atan(small / large) in degrees, nearest multiple of 5 in 0..45
OctantAngle(small, large) ==
    5 * Cardinality({k \in 1..9 : small * 1000 >= TanBounds[k] * large})

\* atan2 for y >= 0, x >= 0, in degrees (0..90)
QuadrantAngle(y, x) ==
    IF y <= x THEN OctantAngle(y, x) ELSE 90 - OctantAngle(x, y)

\* radToDeg(std::atan2(y, x)): in (-180, 180], atan2(0, 0) = 0
Atan2Deg(y, x) ==
    IF y = 0 /\ x = 0 THEN 0
    ELSE IF x >= 0 /\ y >= 0 THEN QuadrantAngle(y, x)
    ELSE IF x < 0 /\ y >= 0 THEN 180 - QuadrantAngle(y, -x)
    ELSE IF x >= 0 THEN -QuadrantAngle(-y, x)
    ELSE LET q == QuadrantAngle(-y, -x)
         IN  IF q = 0 THEN 180 ELSE q - 180

\* ------------------------------------------------------------ geodesy

\* IsochroneRouter::normalizeLongitude
RECURSIVE normalizeLongitude(_)
normalizeLongitude(lon) ==
    IF lon >= PI THEN normalizeLongitude(lon - 2 * PI)
    ELSE IF lon < -PI THEN normalizeLongitude(lon + 2 * PI)
    ELSE lon

\* IsochroneRouter::headingDifference
headingDifference(a, b) ==
    LET diff == Abs(a - b) % 360
    IN  IF diff > 180 THEN 360 - diff ELSE diff

\* the reduction of dlon in greatCircleDistance (one step, as in the code)
ReduceDlon(dlon) ==
    IF dlon > PI THEN dlon - 2 * PI
    ELSE IF dlon < -PI THEN dlon + 2 * PI
    ELSE dlon

\* IsochroneRouter::greatCircleDistance
greatCircleDistance(a, b) ==
    LET dlat == b.lat - a.lat
        dlon == ReduceDlon(b.lon - a.lon)
    IN  safeHypot(dlat, dlon)

\* IsochroneRouter::advancePosition
advancePosition(origin, heading_deg, distance_nm) ==
    [lat |-> origin.lat + RoundDiv(distance_nm * Cos1000(heading_deg), 1000),
     lon |-> normalizeLongitude(
                 origin.lon + RoundDiv(distance_nm * Sin1000(heading_deg), 1000))]

\* IsochroneRouter::greatCircleBearing (sin and cos of dLon are periodic,
\* which the chart renders by reducing dLon)
greatCircleBearing(from, to) ==
    Atan2Deg(normalizeLongitude(to.lon - from.lon), to.lat - from.lat)

\* crossTrackDistance of the anonymous namespace
crossTrackDistance(p, a, b) ==
    LET dist_ap == greatCircleDistance(a, p)
        bearing_ap == greatCircleBearing(a, p)
        bearing_ab == greatCircleBearing(a, b)
        angle_diff == bearing_ap - bearing_ab
        d_xt == Abs(RoundDiv(dist_ap * Sin1000(angle_diff), 1000))
        d_at == RoundDiv(dist_ap * Cos1000(angle_diff), 1000)
        dist_ab == greatCircleDistance(a, b)
    IN  IF dist_ap = 0 THEN 0
        ELSE IF d_at < 0 \/ d_at > dist_ab
             THEN Min2(dist_ap, greatCircleDistance(b, p))
        ELSE d_xt

\* ------------------------------------------------------------ inputs

\* ShipModel defaults (isochrone_router.hpp)
DefaultShip ==
    [calm_speed_kts |-> 140, draft_m |-> 70, safety_depth_buffer_m |-> 15,
     max_wave_height_m |-> 45, max_heading_change_deg |-> 45,
     min_speed_kts |-> 30, wave_drag_coefficient |-> 8]

\* Settings defaults (isochrone_router.hpp); long_route_threshold_nm is set
\* by the requests below
DefaultSettings ==
    [time_step_minutes |-> 45, heading_count |-> 16, merge_radius_nm |-> 150,
     goal_radius_nm |-> 250, max_hours |-> 240, simplify_tolerance_nm |-> 15,
     bearing_window_deg |-> 60, beam_width |-> 1000,
     min_time_step_minutes |-> 15, max_time_step_minutes |-> 120,
     complexity_threshold |-> 500, enable_adaptive_sampling |-> TRUE,
     enable_hierarchical_routing |-> TRUE, long_route_threshold_nm |-> 3000,
     corridor_width_nm |-> 500]

\* EnvironmentSample defaults (isochrone_router.hpp)
DefaultDepth == 50000

\* bound of the model: layers expanded per pass (the code's own limit,
\* max_steps, applies besides)
MaxLayers == 8

VARIABLES
    call,           \* a direct call of a helper function: arguments and value
    build,          \* what the compiled program does where the language
                    \* leaves it open: fixed once it has been seen
    previous,       \* the calls of solve that returned before, and the
                    \* Result of the last of them
    storage,        \* the storage of states: reserved and current capacity,
                    \* and whether the reference `current` still points into it
    request,        \* the Request given to solve
    env,            \* the field behind the EnvironmentSampler given to solve
    pc,             \* position in solve / solveInternal
    pass,           \* which call of solveInternal is running
    settings,       \* solveInternal: the clamped copy of the settings
    max_steps,      \* solveInternal: max_steps
    pass_tolerance, \* solveInternal: request.settings.simplify_tolerance_nm
    corridor,       \* solveInternal: corridor argument
    use_corridor,   \* solveInternal: use_corridor argument
    states,         \* solveInternal: std::vector<State>
    frontier,       \* solveInternal: frontier
    next_frontier,  \* solveInternal: next_frontier
    fpos,           \* position of the range-for over frontier
    h,              \* heading index of the inner for
    step_count,
    delta_minutes,  \* current_time_step_minutes (delta_hours * 60)
    best_goal_index,
    best_goal_arrival,
    goal_reached,
    closest_index,
    closest_distance,
    reached_this_layer,
    last_frontier_size,
    result,         \* the Result of the pass that returned last
    coarse_result,  \* solve: coarse_result
    last,           \* history: what the last fan-out step did with its candidate
    history         \* history: the outcomes seen so far in this pass

\* the variables of solve and solveInternal
solve_vars ==
    << build, previous, storage, request, env, pc, pass, settings, max_steps, pass_tolerance,
       corridor, use_corridor, states, frontier, next_frontier, fpos,
       h, step_count, delta_minutes, best_goal_index,
       best_goal_arrival, goal_reached, closest_index,
       closest_distance, reached_this_layer, last_frontier_size,
       result, coarse_result, last, history >>

vars == << call, solve_vars >>

\* ------------------------------------------------------------ sampler

\* the EnvironmentSampler: a pure function of (lat, lon, time_hours).  The
\* field is deep water with one rectangular band of depth env.band_depth,
\* a base sea state and a storm east of env.storm_lon from env.storm_time on,
\* and a constant current.
InBand(lat, lon) ==
    /\ env.band_lon[1] <= lon /\ lon <= env.band_lon[2]
    /\ env.band_lat[1] <= lat /\ lat <= env.band_lat[2]

Sampler(lat, lon, time_hours) ==
    [current_east_kn |-> env.current_east_kn,
     current_north_kn |-> env.current_north_kn,
     wave_height_m |->
         IF lon >= env.storm_lon /\ time_hours >= env.storm_time
         THEN env.storm_wave ELSE env.wave,
     depth_m |-> IF InBand(lat, lon) THEN env.band_depth ELSE DefaultDepth]

\* ------------------------------------------------------------ fan-out

\* Parameter Validation & Clamping
ClampSettings(s) ==
    [s EXCEPT
        !.time_step_minutes = clamp(s.time_step_minutes, 15, 120),
        !.heading_count = clamp(s.heading_count, 8, 72),
        !.merge_radius_nm = clamp(s.merge_radius_nm, 50, 400),
        !.goal_radius_nm = clamp(s.goal_radius_nm, 100, 600),
        !.max_hours = clamp(IF s.max_hours <= 0 THEN 240 ELSE s.max_hours, 12, 720)]

\* int addition: two's complement wrap-around at 32 bits
AddInt(a, b) ==
    IF b > 0 /\ a > INT_MAX - b THEN INT_MIN + (b - (INT_MAX - a) - 1)
    ELSE IF b < 0 /\ a < INT_MIN - b THEN INT_MAX - ((INT_MIN - b) - a - 1)
    ELSE a + b

\* static_cast<int>(settings.max_hours / (settings.min_time_step_minutes / 60.0)):
\* the quotient truncated toward zero.  With min_time_step_minutes = 0 the
\* quotient is +infinity, whose conversion to int is undefined: a truncating
\* conversion instruction gives INT_MIN, a saturating one INT_MAX, a trapping
\* one ends the program.
StepQuotientOutcomes(s) ==
    IF s.min_time_step_minutes > 0
    THEN {[trap |-> FALSE,
           value |-> TruncDiv(s.max_hours * 60, s.min_time_step_minutes)]}
    ELSE IF s.min_time_step_minutes < 0
    THEN {[trap |-> FALSE,
           value |-> -TruncDiv(s.max_hours * 60, -s.min_time_step_minutes)]}
    ELSE {[trap |-> FALSE, value |-> INT_MIN],
          [trap |-> FALSE, value |-> INT_MAX],
          [trap |-> TRUE, value |-> 0]}

\* the conversion as the program performs it: the outcome of the undefined
\* conversion is the one instruction the compiler emitted for line 97
CastOutcomes(s) ==
    IF s.min_time_step_minutes = 0 /\ build.inf_cast /= {}
    THEN build.inf_cast
    ELSE StepQuotientOutcomes(s)

bearing_increment == 360 \div settings.heading_count

\* min_depth
MinDepth == request.ship.draft_m + request.ship.safety_depth_buffer_m

\* the state the range-for is at
Current == states[frontier[fpos] + 1]

HeadingOf(hh) == bearing_increment * hh

OutsideBearingWindow(current, heading) ==
    headingDifference(greatCircleBearing(current.position, request.goal), heading)
        > settings.bearing_window_deg

TurnTooSharpLoose(current, heading) ==
    /\ current.heading_deg /= NaN
    /\ headingDifference(current.heading_deg, heading)
           > 2 * request.ship.max_heading_change_deg

TurnTooSharp(current, heading) ==
    /\ current.heading_deg /= NaN
    /\ headingDifference(current.heading_deg, heading)
           > request.ship.max_heading_change_deg

ThroughWaterSpeed(env_src) ==
    Max2(request.ship.calm_speed_kts
             - RoundDiv(request.ship.wave_drag_coefficient * env_src.wave_height_m, 10),
         request.ship.min_speed_kts)

GroundSpeed(heading, env_src) ==
    LET tw == ThroughWaterSpeed(env_src)
    IN  safeHypot(RoundDiv(tw * Cos1000(heading), 1000) + env_src.current_north_kn,
                  RoundDiv(tw * Sin1000(heading), 1000) + env_src.current_east_kn)

\* distance_nm
SegmentDistance(heading, env_src, dt) ==
    RoundDiv(Max2(GroundSpeed(heading, env_src), request.ship.min_speed_kts) * dt, 60)

DistanceNeverTooSmall(distance_nm) == FALSE

\* distance_nm < 0.05
DistanceTooSmall(distance_nm) == 2 * distance_nm < 1

\* intermediate_samples_count, FIXED_SAMPLE_SPACING_NM = 2.0
IntermediateSamplesCount(distance_nm) ==
    Max2(2, Min2(CeilDiv(distance_nm, 20), 50))

\* the s-th intermediate sample of the segment
MidSample(position, time_hours, heading, distance_nm, dt, s) ==
    LET n == IntermediateSamplesCount(distance_nm)
        midpoint == advancePosition(position, heading, RoundDiv(distance_nm * s, n))
    IN  Sampler(midpoint.lat, midpoint.lon, time_hours + RoundDiv(dt * s, n))

IntersectsOnlyAtMidpoint(current, heading, distance_nm, dt) ==
    LET n == IntermediateSamplesCount(distance_nm)
        env_mid == MidSample(current.position, current.time_hours, heading,
                             distance_nm, dt, n \div 2)
    IN  env_mid.depth_m < MinDepth \/ env_mid.depth_m = 0

\* intersects_land_or_shallow
IntersectsLandOrShallow(current, heading, distance_nm, dt) ==
    \E s \in 1..(IntermediateSamplesCount(distance_nm) - 1) :
        LET env_mid == MidSample(current.position, current.time_hours, heading,
                                 distance_nm, dt, s)
        IN  env_mid.depth_m < MinDepth \/ env_mid.depth_m = 0

InCorridorDoubleWidth(position) ==
    /\ Len(corridor.centerline) >= 1
    /\ \E i \in 1..(Len(corridor.centerline) - 1) :
           crossTrackDistance(position, corridor.centerline[i],
                              corridor.centerline[i + 1]) < 2 * corridor.width_nm

\* in_corridor
InCorridor(position) ==
    /\ Len(corridor.centerline) >= 1
    /\ \E i \in 1..(Len(corridor.centerline) - 1) :
           crossTrackDistance(position, corridor.centerline[i],
                              corridor.centerline[i + 1]) < corridor.width_nm

DestinationRejectedLegacy(current, env_src, env_dst) ==
    \/ env_dst.depth_m < MinDepth
    \/ Max2(current.max_wave_height_m,
            Max2(env_src.wave_height_m, env_dst.wave_height_m))
           > request.ship.max_wave_height_m

\* the destination gate: env_dst.depth_m + EPS < min_depth
DestinationRejected(current, env_src, env_dst) ==
    env_dst.depth_m < MinDepth

HazardFlagsOfDestination(current, env_dst) ==
    IF env_dst.wave_height_m > request.ship.max_wave_height_m
    THEN HIGH_WAVE ELSE NONE

\* candidate.hazard_flags (the only flag is HIGH_WAVE, so | is max)
HazardFlagsOf(current, env_dst) ==
    Max2(current.hazard_flags,
         IF env_dst.wave_height_m > request.ship.max_wave_height_m
         THEN HIGH_WAVE ELSE NONE)

ParentSelf(idx) == Len(states)

\* candidate.parent_index
ParentIndexOf(idx) == idx

\* State candidate, filled as in the loop body
MakeCandidate(idx, current, heading, distance_nm, dt, env_src, env_dst) ==
    [position |-> advancePosition(current.position, heading, distance_nm),
     time_hours |-> current.time_hours + dt,
     heading_deg |-> heading,
     parent_index |-> ParentIndexOf(idx),
     cumulative_distance_nm |-> current.cumulative_distance_nm + distance_nm,
     max_wave_height_m |->
         Max2(current.max_wave_height_m,
              Max2(env_src.wave_height_m, env_dst.wave_height_m)),
     hazard_flags |-> HazardFlagsOf(current, env_dst)]

MergeWithinLast(candidate) ==
    {k \in 1..Len(next_frontier) :
        /\ k = Len(next_frontier)
        /\ greatCircleDistance(states[next_frontier[k] + 1].position,
                               candidate.position) <= settings.merge_radius_nm}

\* positions of next_frontier whose state is within merge_radius_nm of the
\* candidate
MergeWithin(candidate) ==
    {k \in 1..Len(next_frontier) :
        greatCircleDistance(states[next_frontier[k] + 1].position,
                            candidate.position) <= settings.merge_radius_nm}

SetMin(S) == CHOOSE m \in S : \A k \in S : m <= k

IsCloserThanStart(goal_distance) ==
    goal_distance < greatCircleDistance(request.start, request.goal)

\* goal_distance < closest_distance
IsCloser(goal_distance) == goal_distance < closest_distance

IsEarlierOrEqual(candidate, existing) ==
    candidate.time_hours <= existing.time_hours

\* candidate.time_hours + EPS < existing.time_hours
IsEarlier(candidate, existing) ==
    candidate.time_hours < existing.time_hours

AtGoalHalfRadius(goal_distance) == 2 * goal_distance <= settings.goal_radius_nm

\* goal_distance <= settings.goal_radius_nm
AtGoal(goal_distance) == goal_distance <= settings.goal_radius_nm

\* ------------------------------------------------------------ solveInternal

\* the locals of solveInternal after its prologue, for the given settings,
\* simplify tolerance and corridor
EnterPass(name, s, tolerance, cor, use_cor) ==
    /\ pass' = name
    /\ settings' = ClampSettings(s)
    /\ pass_tolerance' = tolerance
    /\ corridor' = cor
    /\ use_corridor' = use_cor
    /\ storage' = [storage EXCEPT !.capacity = storage.reserved,
                                  !.dangling = FALSE]
    /\ states' = << [position |-> request.start,
                     time_hours |-> request.departure_time_hours,
                     heading_deg |-> NaN,
                     parent_index |-> -1,
                     cumulative_distance_nm |-> 0,
                     max_wave_height_m |-> 0,
                     hazard_flags |-> NONE] >>
    /\ frontier' = << 0 >>
    /\ next_frontier' = << >>
    /\ fpos' = 1
    /\ h' = 0
    /\ step_count' = 0
    /\ delta_minutes' = clamp(s.time_step_minutes, 15, 120)
    /\ best_goal_index' = -1
    /\ best_goal_arrival' = DBL_MAX
    /\ goal_reached' = FALSE
    /\ closest_index' = 0
    /\ closest_distance' = greatCircleDistance(request.start, request.goal)
    /\ reached_this_layer' = FALSE
    /\ last_frontier_size' = 1
    /\ last' = [outcome |-> "none"]
    /\ history' = {}
    /\ \E quotient \in CastOutcomes(ClampSettings(s)) :
           /\ build' = IF ClampSettings(s).min_time_step_minutes = 0
                       THEN [build EXCEPT !.inf_cast = {quotient}]
                       ELSE build
           /\ IF quotient.trap
              THEN max_steps' = 0 /\ pc' = "trap"
              ELSE max_steps' = AddInt(quotient.value, 1) /\ pc' = "layer"

\* IsochroneRouter::calculateComplexity, in thousandths
calculateComplexity(state, e, s) ==
    IF ~s.enable_adaptive_sampling THEN 0
    ELSE LET wave_complexity == Min2(RoundDiv(e.wave_height_m * 1000, 80), 1000)
             depth_complexity ==
                 IF e.depth_m < 1000 THEN Min2(1000 - e.depth_m, 1000) ELSE 0
         IN  RoundDiv(wave_complexity * 7 + depth_complexity * 3, 10)

RECURSIVE TotalComplexity(_)
TotalComplexity(k) ==
    IF k = 0 THEN 0
    ELSE LET state == states[frontier[k] + 1]
             e == Sampler(state.position.lat, state.position.lon, state.time_hours)
         IN  TotalComplexity(k - 1) + calculateComplexity(state, e, settings)

\* factor, in thousandths.  A zero denominator gives +inf or -inf in the
\* code, which std::clamp takes to 1 or 0 (0/0, NaN, needs
\* complexity_threshold = 0.3, which no request of the model has).
AdaptiveFactor(avg_complexity) ==
    LET num == avg_complexity - 300
        den == settings.complexity_threshold - 300
    IN  IF den > 0 THEN clamp(RoundDiv(num * 1000, den), 0, 1000)
        ELSE IF den < 0 THEN clamp(RoundDiv((-num) * 1000, -den), 0, 1000)
        ELSE IF num > 0 THEN 1000 ELSE 0

\* avg_complexity
AverageComplexity == RoundDiv(TotalComplexity(Len(frontier)), Len(frontier))

\* current_time_step_minutes for an average complexity
AdaptiveStepFor(avg_complexity) ==
    LET factor == AdaptiveFactor(avg_complexity)
    IN  settings.max_time_step_minutes
            - RoundDiv(factor * (settings.max_time_step_minutes
                                     - settings.min_time_step_minutes), 1000)

\* current_time_step_minutes of the layer that starts
AdaptiveStep == AdaptiveStepFor(AverageComplexity)

\* while (!frontier.empty() && step_count < max_steps): the head of one layer
BeginLayer ==
    /\ pc = "layer"
    /\ Len(frontier) > 0 /\ step_count < max_steps
    /\ step_count < MaxLayers
    /\ step_count' = step_count + 1
    /\ delta_minutes' =
           IF settings.enable_adaptive_sampling /\ step_count + 1 > 1
           THEN AdaptiveStep ELSE delta_minutes
    /\ next_frontier' = << >>
    /\ reached_this_layer' = FALSE
    /\ fpos' = 1
    /\ h' = 0
    /\ pc' = "fanout"
    /\ last' = [outcome |-> "none"]
    /\ UNCHANGED << call, build, previous, storage, request, env, pass, settings, max_steps, pass_tolerance, corridor,
                    use_corridor, states, frontier, best_goal_index,
                    best_goal_arrival, goal_reached, closest_index,
                    closest_distance, last_frontier_size, result, coarse_result,
                    history >>

\* the loop condition fails
LoopExit ==
    /\ pc = "layer"
    /\ ~(Len(frontier) > 0 /\ step_count < max_steps)
    /\ pc' = "finish"
    /\ UNCHANGED << call, build, previous, storage, request, env, pass, settings, max_steps, pass_tolerance, corridor,
                    use_corridor, states, frontier, next_frontier, fpos, h,
                    step_count, delta_minutes, best_goal_index, best_goal_arrival,
                    goal_reached, closest_index, closest_distance,
                    reached_this_layer, last_frontier_size, result,
                    coarse_result, last, history >>

\* which gate stops the candidate of (current, heading), or "merge"; origin
\* is the frontier state as it was when bearing_to_goal was computed
GateOutcome(origin, current, heading, distance_nm, dt, env_src, env_dst, position) ==
    IF OutsideBearingWindow(origin, heading) THEN "window"
    ELSE IF TurnTooSharp(current, heading) THEN "turn"
    ELSE IF DistanceTooSmall(distance_nm) THEN "short"
    ELSE IF IntersectsLandOrShallow(current, heading, distance_nm, dt)
         THEN "intermediate"
    ELSE IF use_corridor /\ ~InCorridor(position) THEN "corridor"
    ELSE IF DestinationRejected(current, env_src, env_dst) THEN "depth"
    ELSE "merge"

\* what a read through `const State& current` gives.  The reference is bound
\* once per frontier state; a push_back that exceeds the capacity moves the
\* storage and leaves it dangling, and reading through it is undefined: the
\* old block may still hold the state, may have been reused (zero-filled
\* here), or may be unmapped, which ends the program.
ZeroState ==
    [position |-> [lat |-> 0, lon |-> 0], time_hours |-> 0, heading_deg |-> 0,
     parent_index |-> -1, cumulative_distance_nm |-> 0,
     max_wave_height_m |-> 0, hazard_flags |-> NONE]

ReadsOfCurrent(idx) ==
    IF storage.dangling
    THEN {[fault |-> FALSE, state |-> states[idx + 1]],
          [fault |-> FALSE, state |-> ZeroState],
          [fault |-> TRUE, state |-> ZeroState]}
    ELSE {[fault |-> FALSE, state |-> states[idx + 1]]}

\* states.push_back past the capacity: the storage moves and the capacity
\* doubles
Reallocates == Len(states) >= storage.capacity

\* one pass of the body of for (h ...) for the frontier state at fpos, the
\* reads of `current` giving the state `current`
ExpandWith(current) ==
    /\ LET idx == frontier[fpos]
           origin == states[idx + 1]
           env_src == Sampler(origin.position.lat, origin.position.lon,
                              origin.time_hours)
           heading == HeadingOf(h)
           distance_nm == SegmentDistance(heading, env_src, delta_minutes)
           position == advancePosition(current.position, heading, distance_nm)
           env_dst == Sampler(position.lat, position.lon,
                              current.time_hours + delta_minutes)
           gate == GateOutcome(origin, current, heading, distance_nm,
                               delta_minutes, env_src, env_dst, position)
           candidate == MakeCandidate(idx, current, heading, distance_nm,
                                      delta_minutes, env_src, env_dst)
           within == MergeWithin(candidate)
           dominated == within /= {}
           existing_index == next_frontier[SetMin(within)]
           replace == dominated
                      /\ IsEarlier(candidate, states[existing_index + 1])
           outcome == IF gate /= "merge" THEN gate
                      ELSE IF dominated /\ ~replace THEN "dominated"
                      ELSE IF replace THEN "replaced"
                      ELSE "stored"
           candidate_index == IF replace THEN existing_index ELSE Len(states)
           goal_distance == greatCircleDistance(candidate.position, request.goal)
           kept == outcome \in {"replaced", "stored"}
           at_goal == kept /\ AtGoal(goal_distance)
           better == at_goal /\ candidate.time_hours < best_goal_arrival
           moved == outcome = "stored" /\ Reallocates
       IN  /\ states' = IF outcome = "replaced"
                        THEN [states EXCEPT ![existing_index + 1] = candidate]
                        ELSE IF outcome = "stored" THEN Append(states, candidate)
                        ELSE states
           /\ storage' =
                  [storage EXCEPT
                      !.capacity = IF moved THEN 2 * storage.capacity
                                   ELSE storage.capacity,
                      !.dangling = IF h + 1 < settings.heading_count
                                   THEN storage.dangling \/ moved
                                   ELSE FALSE]
           /\ next_frontier' = IF outcome = "stored"
                               THEN Append(next_frontier, candidate_index)
                               ELSE next_frontier
           /\ closest_distance' = IF kept /\ IsCloser(goal_distance)
                                  THEN goal_distance ELSE closest_distance
           /\ closest_index' = IF kept /\ IsCloser(goal_distance)
                               THEN candidate_index ELSE closest_index
           /\ reached_this_layer' = (reached_this_layer \/ at_goal)
           /\ best_goal_arrival' = IF better THEN candidate.time_hours
                                   ELSE best_goal_arrival
           /\ best_goal_index' = IF better THEN candidate_index ELSE best_goal_index
           /\ goal_reached' = (goal_reached \/ better)
           /\ last' = [outcome |-> outcome, idx |-> idx, heading |-> heading,
                       distance_nm |-> distance_nm, dt |-> delta_minutes,
                       index |-> candidate_index,
                       dst_wave |-> env_dst.wave_height_m,
                       dst_depth |-> env_dst.depth_m,
                       current |-> current]
           /\ history' = history \cup {outcome}
    /\ IF h + 1 < settings.heading_count
       THEN h' = h + 1 /\ fpos' = fpos
       ELSE h' = 0 /\ fpos' = fpos + 1
    /\ UNCHANGED << call, build, previous, request, env, pc, pass, settings, max_steps,
                    pass_tolerance, corridor, use_corridor, frontier,
                    step_count, delta_minutes, last_frontier_size, result,
                    coarse_result >>

\* the program ends on a read of unmapped storage
Fault ==
    /\ pc' = "fault"
    /\ UNCHANGED << call, build, previous, storage, request, env, pass, settings, max_steps,
                    pass_tolerance, corridor, use_corridor, states, frontier,
                    next_frontier, fpos, h, step_count, delta_minutes,
                    best_goal_index, best_goal_arrival, goal_reached,
                    closest_index, closest_distance, reached_this_layer,
                    last_frontier_size, result, coarse_result, last, history >>

\* one pass of the body of for (h ...) for the frontier state at fpos
Expand ==
    /\ pc = "fanout"
    /\ fpos <= Len(frontier)
    /\ \E read \in ReadsOfCurrent(frontier[fpos]) :
           IF read.fault THEN Fault ELSE ExpandWith(read.state)

BeamCostDistanceToGoal(i) ==
    greatCircleDistance(states[i + 1].position, request.goal)

\* the cost the beam prune sorts by
BeamCost(i) ==
    states[i + 1].cumulative_distance_nm
        + greatCircleDistance(states[i + 1].position, request.goal)

\* the orders std::sort may leave a set of indices in: ascending cost, equal
\* costs in any order (std::sort is not a stable sort)
RECURSIVE SortedOrders(_)
SortedOrders(S) ==
    IF S = {} THEN { << >> }
    ELSE UNION { { << m >> \o t : t \in SortedOrders(S \ {m}) } :
                 m \in {e \in S : \A o \in S : BeamCost(e) <= BeamCost(o)} }

Range(seq) == {seq[k] : k \in 1..Len(seq)}

BeamApplies ==
    settings.beam_width > 0 /\ Len(next_frontier) > settings.beam_width

\* what std::sort is given: the indices in order and the costs it compares
SortInput ==
    [indices |-> next_frontier,
     costs |-> [k \in 1..Len(next_frontier) |-> BeamCost(next_frontier[k])]]

SortOutcomesAnyCall == SortedOrders(Range(next_frontier))

\* the order std::sort leaves next_frontier in.  The order of equal costs is
\* unspecified, and std::sort is a function of its input: the program sorts
\* an input it has sorted before the way it did then
SortOutcomes ==
    IF \E m \in build.sort : m.input = SortInput
    THEN {m.order : m \in {mm \in build.sort : mm.input = SortInput}}
    ELSE SortedOrders(Range(next_frontier))

\* after the range-for over the frontier: beam prune, break or swap
EndLayer ==
    /\ pc = "fanout"
    /\ fpos > Len(frontier)
    /\ IF BeamApplies
       THEN \E order \in SortOutcomes :
                /\ next_frontier' = SubSeq(order, 1, settings.beam_width)
                /\ frontier' = IF reached_this_layer THEN frontier
                               ELSE SubSeq(order, 1, settings.beam_width)
                /\ build' = [build EXCEPT
                                 !.sort = @ \cup {[input |-> SortInput,
                                                   order |-> order]}]
       ELSE /\ next_frontier' = next_frontier
            /\ frontier' = IF reached_this_layer THEN frontier
                           ELSE next_frontier
            /\ build' = build
    /\ last_frontier_size' =
           IF BeamApplies THEN settings.beam_width ELSE Len(next_frontier)
    /\ pc' = IF reached_this_layer THEN "finish" ELSE "layer"
    /\ history' = IF BeamApplies THEN history \cup {"pruned"} ELSE history
    /\ UNCHANGED << call, previous, storage, request, env, pass, settings, max_steps, pass_tolerance, corridor,
                    use_corridor, states, fpos, h, step_count, delta_minutes,
                    best_goal_index, best_goal_arrival, goal_reached,
                    closest_index, closest_distance, reached_this_layer,
                    result, coarse_result, last >>

\* ------------------------------------------------------------ result

\* the backtrack vector after std::reverse: state indices from 0 to cursor
RECURSIVE Backtrack(_)
Backtrack(cursor) ==
    IF cursor < 0 THEN << >>
    ELSE Append(Backtrack(states[cursor + 1].parent_index), cursor)

\* the Waypoint pushed to waypoints_raw for a state
WaypointOf(state) ==
    [lat |-> state.position.lat, lon |-> state.position.lon,
     time_hours |-> state.time_hours, heading_deg |-> state.heading_deg,
     is_course_change |-> FALSE,
     max_wave_height_m |-> state.max_wave_height_m,
     hazard_flags |-> state.hazard_flags]

toGeoPoint(wp) == [lat |-> wp.lat, lon |-> wp.lon]

\* the distance dpSimplifyRecursive measures for points[i] (indices from 0)
ChordDistance(points, start_idx, end_idx, i) ==
    crossTrackDistance(toGeoPoint(points[i + 1]), toGeoPoint(points[start_idx + 1]),
                       toGeoPoint(points[end_idx + 1]))

\* max_dist of dpSimplifyRecursive
MaxDist(points, start_idx, end_idx) ==
    LET dists == {ChordDistance(points, start_idx, end_idx, i) :
                      i \in (start_idx + 1)..(end_idx - 1)} \cup {0}
    IN  CHOOSE m \in dists : \A d \in dists : d <= m

\* max_idx of dpSimplifyRecursive: the first index that attains max_dist
MaxIdx(points, start_idx, end_idx) ==
    LET m == MaxDist(points, start_idx, end_idx)
        at == {i \in (start_idx + 1)..(end_idx - 1) :
                   ChordDistance(points, start_idx, end_idx, i) = m}
    IN  IF m > 0 THEN SetMin(at) ELSE -1

RECURSIVE dpSimplifyLeftOnly(_, _, _, _)
dpSimplifyLeftOnly(points, tolerance_nm, start_idx, end_idx) ==
    IF start_idx >= end_idx THEN << >>
    ELSE IF MaxDist(points, start_idx, end_idx) > tolerance_nm
    THEN LET max_idx == MaxIdx(points, start_idx, end_idx)
         IN  dpSimplifyLeftOnly(points, tolerance_nm, start_idx, max_idx)
                 \o << max_idx >>
    ELSE << >>

\* dpSimplifyRecursive: the indices it appends to simplified_indices, in order
RECURSIVE dpSimplifyRecursive(_, _, _, _)
dpSimplifyRecursive(points, tolerance_nm, start_idx, end_idx) ==
    IF start_idx >= end_idx THEN << >>
    ELSE IF MaxDist(points, start_idx, end_idx) > tolerance_nm
    THEN LET max_idx == MaxIdx(points, start_idx, end_idx)
         IN  dpSimplifyRecursive(points, tolerance_nm, start_idx, max_idx)
                 \o << max_idx >>
                 \o dpSimplifyRecursive(points, tolerance_nm, max_idx, end_idx)
    ELSE << >>

RECURSIVE SortUniqueDescending(_)
SortUniqueDescending(S) ==
    IF S = {} THEN << >>
    ELSE LET m == CHOOSE x \in S : \A y \in S : y <= x
         IN  << m >> \o SortUniqueDescending(S \ {m})

\* std::sort then std::unique on a vector of indices
RECURSIVE SortUnique(_)
SortUnique(S) ==
    IF S = {} THEN << >>
    ELSE LET m == SetMin(S) IN << m >> \o SortUnique(S \ {m})

SimplifiedIndicesNoLast(raw, tolerance_nm) ==
    SortUnique({0} \cup Range(dpSimplifyRecursive(raw, tolerance_nm, 0, Len(raw) - 1)))

\* simplified_indices after sort and unique
SimplifiedIndices(raw, tolerance_nm) ==
    SortUnique({0, Len(raw) - 1}
               \cup Range(dpSimplifyRecursive(raw, tolerance_nm, 0, Len(raw) - 1)))

\* index_map of the Result
IndexMapOf(raw, tolerance_nm) ==
    IF tolerance_nm > 0 /\ Len(raw) > 2
    THEN SimplifiedIndices(raw, tolerance_nm)
    ELSE [k \in 1..Len(raw) |-> k - 1]

\* final_index
FinalIndex == IF best_goal_index /= -1 THEN best_goal_index ELSE closest_index

\* the Diagnostics the function fills; the members it does not assign keep
\* their default member initializers
DiagnosticsOf(final_state) ==
    [total_distance_nm |-> final_state.cumulative_distance_nm,
     eta_hours |-> final_state.time_hours,
     average_speed_kts |-> 0,
     max_wave_height_m |-> 0,
     step_count |-> step_count,
     frontier_size |-> last_frontier_size,
     reached_goal |-> goal_reached,
     final_distance_to_goal_nm |->
         greatCircleDistance(final_state.position, request.goal),
     hazard_flags |-> 0]

EmptyResult ==
    [waypoints |-> << >>, waypoints_raw |-> << >>, index_map |-> << >>,
     diagnostics |-> [total_distance_nm |-> 0, eta_hours |-> 0,
                      average_speed_kts |-> 0, max_wave_height_m |-> 0,
                      step_count |-> 0, frontier_size |-> 0,
                      reached_goal |-> FALSE, final_distance_to_goal_nm |-> 0,
                      hazard_flags |-> 0],
     is_coarse_route |-> FALSE]

\* after the main loop: backtrack, simplify, diagnostics, return
Finish ==
    /\ pc = "finish"
    /\ LET backtrack == Backtrack(FinalIndex)
           raw == [i \in 1..Len(backtrack) |-> WaypointOf(states[backtrack[i] + 1])]
           index_map == IndexMapOf(raw, pass_tolerance)
       IN  result' = [waypoints |-> [k \in 1..Len(index_map) |-> raw[index_map[k] + 1]],
                      waypoints_raw |-> raw,
                      index_map |-> index_map,
                      diagnostics |-> DiagnosticsOf(states[FinalIndex + 1]),
                      is_coarse_route |-> FALSE]
    /\ pc' = "returned"
    /\ UNCHANGED << call, build, previous, storage, request, env, pass, settings, max_steps, pass_tolerance, corridor,
                    use_corridor, states, frontier, next_frontier, fpos, h,
                    step_count, delta_minutes, best_goal_index, best_goal_arrival,
                    goal_reached, closest_index, closest_distance,
                    reached_this_layer, last_frontier_size, coarse_result, last,
                    history >>

\* ------------------------------------------------------------ solve

NoCorridor == [centerline |-> << >>, width_nm |-> 0]

\* coarse_request.settings
CoarseSettings ==
    [request.settings EXCEPT
        !.time_step_minutes = 90, !.heading_count = 12, !.merge_radius_nm = 400,
        !.beam_width = 300, !.simplify_tolerance_nm = 500,
        !.enable_adaptive_sampling = FALSE]

IsLongRouteInclusive ==
    /\ request.settings.enable_hierarchical_routing
    /\ greatCircleDistance(request.start, request.goal)
           >= request.settings.long_route_threshold_nm

\* the condition of the hierarchical branch
IsLongRoute ==
    /\ request.settings.enable_hierarchical_routing
    /\ greatCircleDistance(request.start, request.goal)
           > request.settings.long_route_threshold_nm

\* PHASE 1: the coarse pass is called
SolveCoarse ==
    /\ pc = "solve"
    /\ IsLongRoute
    /\ EnterPass("coarse", CoarseSettings, CoarseSettings.simplify_tolerance_nm,
                 NoCorridor, FALSE)
    /\ UNCHANGED << call, previous, request, env, result, coarse_result >>

\* the standard search for shorter routes is called
SolveStandard ==
    /\ pc = "solve"
    /\ ~IsLongRoute
    /\ EnterPass("standard", request.settings,
                 request.settings.simplify_tolerance_nm, NoCorridor, FALSE)
    /\ UNCHANGED << call, previous, request, env, result, coarse_result >>

CoarseResultEmpty == Len(result.waypoints) = 0

MarkNothing(r) == r

\* coarse_result.is_coarse_route = true
MarkCoarse(r) == [r EXCEPT !.is_coarse_route = TRUE]

\* coarse_result.waypoints.empty() || coarse_result.waypoints.size() < 2
CoarseResultTooShort == Len(result.waypoints) = 0 \/ Len(result.waypoints) < 2

\* the coarse pass returned fewer than 2 waypoints: fallback to standard search
CoarseFallback ==
    /\ pc = "returned" /\ pass = "coarse"
    /\ CoarseResultTooShort
    /\ coarse_result' = MarkCoarse(result)
    /\ EnterPass("fallback", request.settings,
                 request.settings.simplify_tolerance_nm, NoCorridor, FALSE)
    /\ UNCHANGED << call, previous, request, env, result >>

\* PHASE 2: the fine pass is called with the corridor of the coarse waypoints
StartFine ==
    /\ pc = "returned" /\ pass = "coarse"
    /\ ~CoarseResultTooShort
    /\ coarse_result' = MarkCoarse(result)
    /\ EnterPass("fine", request.settings, request.settings.simplify_tolerance_nm,
                 [centerline |-> [k \in 1..Len(result.waypoints) |->
                                      toGeoPoint(result.waypoints[k])],
                  width_nm |-> request.settings.corridor_width_nm],
                 TRUE)
    /\ UNCHANGED << call, previous, request, env, result >>

\* solve returns the Result of its last pass
Return ==
    /\ pc = "returned" /\ pass \in {"standard", "fallback", "fine"}
    /\ pc' = "done"
    /\ UNCHANGED << call, build, previous, storage, request, env, pass, settings, max_steps, pass_tolerance, corridor,
                    use_corridor, states, frontier, next_frontier, fpos, h,
                    step_count, delta_minutes, best_goal_index, best_goal_arrival,
                    goal_reached, closest_index, closest_distance,
                    reached_this_layer, last_frontier_size, result,
                    coarse_result, last, history >>

\* ------------------------------------------------------------ requests

Point(lat, lon) == [lat |-> lat, lon |-> lon]

\* start and goal: 45 nm due east from the origin; 43 nm east-north-east
\* across the antimeridian
Endpoints ==
    { << Point(0, 0), Point(0, 450) >>,
      << Point(0, 107900), Point(150, -107700) >> }

\* the default ship, and a raft that draws no water and turns freely
Ships ==
    { DefaultShip,
      [DefaultShip EXCEPT !.draft_m = 0, !.safety_depth_buffer_m = 0,
                          !.max_heading_change_deg = 90] }

\* the defaults with 8 headings (a heading_count whose increment the sine
\* table holds), a 10 nm goal radius, a 60 minute longest adaptive step and a
\* 30 nm long-route threshold
BaseSettings ==
    [DefaultSettings EXCEPT !.heading_count = 8, !.goal_radius_nm = 100,
                            !.merge_radius_nm = 50,
                            !.max_time_step_minutes = 60,
                            !.enable_adaptive_sampling = FALSE,
                            !.enable_hierarchical_routing = FALSE,
                            !.long_route_threshold_nm = 300,
                            !.corridor_width_nm = 60]

SettingsChoices ==
    { \* one standard pass, fixed step
      BaseSettings,
      \* coarse pass, then fine pass in a 6 nm corridor
      [BaseSettings EXCEPT !.enable_hierarchical_routing = TRUE],
      \* hierarchical routing enabled, the route no longer than the 45 nm
      \* threshold
      [BaseSettings EXCEPT !.enable_hierarchical_routing = TRUE,
                           !.long_route_threshold_nm = 450],
      \* hierarchical routing with a bearing window of 45 degrees
      [BaseSettings EXCEPT !.enable_hierarchical_routing = TRUE,
                           !.bearing_window_deg = 45],
      \* coarse pass, then adaptive fine pass in a 20 nm corridor
      [BaseSettings EXCEPT !.enable_hierarchical_routing = TRUE,
                           !.enable_adaptive_sampling = TRUE,
                           !.merge_radius_nm = 150,
                           !.goal_radius_nm = 250,
                           !.corridor_width_nm = 200],
      \* adaptive step, no simplification
      [BaseSettings EXCEPT !.enable_adaptive_sampling = TRUE,
                           !.merge_radius_nm = 150,
                           !.simplify_tolerance_nm = 0],
      \* adaptive step with a complexity_threshold of 0.2
      [BaseSettings EXCEPT !.enable_adaptive_sampling = TRUE,
                           !.complexity_threshold = 200],
      \* adaptive step with a complexity_threshold of 1.5
      [BaseSettings EXCEPT !.enable_adaptive_sampling = TRUE,
                           !.complexity_threshold = 1500],
      \* adaptive step of 4 hours, max_hours 12: a step limit of 4 layers
      [BaseSettings EXCEPT !.enable_adaptive_sampling = TRUE,
                           !.min_time_step_minutes = 240,
                           !.max_time_step_minutes = 240,
                           !.max_hours = 12],
      \* adaptive step with the step limits the wrong way round
      [BaseSettings EXCEPT !.enable_adaptive_sampling = TRUE,
                           !.min_time_step_minutes = 45,
                           !.max_time_step_minutes = -15],
      \* a beam of 2
      [BaseSettings EXCEPT !.beam_width = 2],
      \* a step limit of 3 layers: max_hours 12, min_time_step_minutes 360;
      \* no beam
      [BaseSettings EXCEPT !.max_hours = 12, !.min_time_step_minutes = 360,
                           !.beam_width = 0],
      \* min_time_step_minutes 0 and negative
      [BaseSettings EXCEPT !.min_time_step_minutes = 0],
      [BaseSettings EXCEPT !.min_time_step_minutes = -15],
      \* out-of-range values
      [BaseSettings EXCEPT !.time_step_minutes = 200,
                           !.heading_count = 4,
                           !.merge_radius_nm = 10,
                           !.goal_radius_nm = 50,
                           !.max_hours = 0,
                           !.beam_width = -1] }

OpenSea ==
    [band_lon |-> << 1, 0 >>, band_lat |-> << 1, 0 >>, band_depth |-> 0,
     wave |-> 10, storm_lon |-> 0, storm_time |-> DBL_MAX, storm_wave |-> 10,
     current_east_kn |-> 0, current_north_kn |-> 0]

Environments ==
    { OpenSea,
      \* a strip of land 2 nm wide, 6 nm east of the origin, open to the south
      [OpenSea EXCEPT !.band_lon = << 60, 80 >>, !.band_lat = << -40, 2000 >>],
      \* a shoal of 5 m in the same place, open to the north
      [OpenSea EXCEPT !.band_lon = << 60, 80 >>, !.band_lat = << -2000, 40 >>,
                      !.band_depth = 50],
      \* 5 m waves east of 15 nm from the first half hour on
      [OpenSea EXCEPT !.storm_lon = 150, !.storm_time = 30, !.storm_wave = 50],
      \* a current of 3 kn to the west and 2 kn to the north
      [OpenSea EXCEPT !.current_east_kn = -30, !.current_north_kn = 20],
      \* a wall of land from 11 nm to 20 nm east of the origin
      [OpenSea EXCEPT !.band_lon = << 110, 200 >>, !.band_lat = << -5000, 5000 >>],
      \* land everywhere east of 3 nm
      [OpenSea EXCEPT !.band_lon = << 30, PI - 1 >>, !.band_lat = << -5000, 5000 >>],
      \* 15 m waves everywhere: every ship makes its min_speed_kts
      [OpenSea EXCEPT !.wave = 150, !.storm_wave = 150] }

\* no helper function is called directly
NoCall == [fn |-> "none"]

\* nothing the language leaves open has been executed yet
NewBuild == [inf_cast |-> {}, sort |-> {}]

\* solve has not returned yet
NoPrevious == [calls |-> 0, result |-> EmptyResult]

\* before solve is called
Idle ==
    /\ pc = "solve"
    /\ pass = "none"
    /\ settings = DefaultSettings
    /\ max_steps = 0
    /\ pass_tolerance = 0
    /\ corridor = NoCorridor
    /\ use_corridor = FALSE
    /\ states = << >>
    /\ frontier = << >>
    /\ next_frontier = << >>
    /\ fpos = 1
    /\ h = 0
    /\ step_count = 0
    /\ delta_minutes = 0
    /\ best_goal_index = -1
    /\ best_goal_arrival = DBL_MAX
    /\ goal_reached = FALSE
    /\ closest_index = 0
    /\ closest_distance = 0
    /\ reached_this_layer = FALSE
    /\ last_frontier_size = 0
    /\ result = EmptyResult
    /\ coarse_result = EmptyResult
    /\ last = [outcome |-> "none"]
    /\ history = {}

\* states.reserve(8192)
ReservedStates == 8192

Init ==
    /\ call = NoCall
    /\ build = NewBuild
    /\ previous = NoPrevious
    /\ storage = [reserved |-> ReservedStates, capacity |-> 0, dangling |-> FALSE]
    /\ \E ends \in Endpoints, ship \in Ships, s \in SettingsChoices :
           request = [start |-> ends[1], goal |-> ends[2],
                      departure_time_hours |-> 0, ship |-> ship, settings |-> s]
    /\ env \in Environments
    /\ Idle

Next ==
    \/ SolveCoarse
    \/ SolveStandard
    \/ BeginLayer
    \/ LoopExit
    \/ Expand
    \/ EndLayer
    \/ Finish
    \/ CoarseFallback
    \/ StartFine
    \/ Return

Spec == Init /\ [][Next]_vars

\* ------------------------------------------------------------ solve called
\* again

\* the caller keeps the Result and calls solve again with an equal request
\* and the same sampler; the locals of the call that returned are gone
SolveAgain ==
    /\ pc = "done"
    /\ previous.calls = 0
    /\ previous' = [calls |-> 1, result |-> result]
    /\ pc' = "solve"
    /\ pass' = "none"
    /\ settings' = DefaultSettings
    /\ max_steps' = 0
    /\ pass_tolerance' = 0
    /\ corridor' = NoCorridor
    /\ use_corridor' = FALSE
    /\ states' = << >>
    /\ frontier' = << >>
    /\ next_frontier' = << >>
    /\ fpos' = 1
    /\ h' = 0
    /\ step_count' = 0
    /\ delta_minutes' = 0
    /\ best_goal_index' = -1
    /\ best_goal_arrival' = DBL_MAX
    /\ goal_reached' = FALSE
    /\ closest_index' = 0
    /\ closest_distance' = 0
    /\ reached_this_layer' = FALSE
    /\ last_frontier_size' = 0
    /\ result' = EmptyResult
    /\ coarse_result' = EmptyResult
    /\ last' = [outcome |-> "none"]
    /\ history' = {}
    /\ UNCHANGED << call, build, storage, request, env >>

\* one standard pass; coarse pass, then fine pass or fallback; a beam of 2;
\* min_time_step_minutes 0
RepeatSettings ==
    { BaseSettings,
      [BaseSettings EXCEPT !.enable_hierarchical_routing = TRUE],
      [BaseSettings EXCEPT !.beam_width = 2],
      [BaseSettings EXCEPT !.min_time_step_minutes = 0] }

\* open sea, the current, and land everywhere east of 3 nm
RepeatEnvironments ==
    { OpenSea,
      [OpenSea EXCEPT !.current_east_kn = -30, !.current_north_kn = 20],
      [OpenSea EXCEPT !.band_lon = << 30, PI - 1 >>, !.band_lat = << -5000, 5000 >>] }

RepeatInit ==
    /\ call = NoCall
    /\ build = NewBuild
    /\ previous = NoPrevious
    /\ storage = [reserved |-> ReservedStates, capacity |-> 0, dangling |-> FALSE]
    /\ \E ends \in Endpoints, ship \in Ships, s \in RepeatSettings :
           request = [start |-> ends[1], goal |-> ends[2],
                      departure_time_hours |-> 0, ship |-> ship, settings |-> s]
    /\ env \in RepeatEnvironments
    /\ Idle

RepeatNext == Next \/ SolveAgain

RepeatSpec == RepeatInit /\ [][RepeatNext]_vars

\* ------------------------------------------------------------ growth of states

\* bound: the capacity reserved for states in the runs that outgrow it (the
\* code reserves ReservedStates, which takes a route of hundreds of layers to
\* outgrow)
SmallReserve == 2

\* one standard pass; coarse pass, then fine pass or fallback
GrowthSettings ==
    { BaseSettings,
      [BaseSettings EXCEPT !.enable_hierarchical_routing = TRUE] }

\* requests of the default ship, the storage of states reserved for
\* SmallReserve states only
GrowthInit ==
    /\ call = NoCall
    /\ build = NewBuild
    /\ previous = NoPrevious
    /\ storage = [reserved |-> SmallReserve, capacity |-> 0, dangling |-> FALSE]
    /\ \E ends \in Endpoints, s \in GrowthSettings :
           request = [start |-> ends[1], goal |-> ends[2],
                      departure_time_hours |-> 0, ship |-> DefaultShip,
                      settings |-> s]
    /\ env \in Environments
    /\ Idle

GrowthSpec == GrowthInit /\ [][Next]_vars

\* ------------------------------------------------------------ the simplifier
\* called directly

\* bound: the longest polyline given to the simplifier
MaxPoints == 4

SimplifierPoints == {Point(0, 0), Point(0, 100), Point(100, 100)}

\* the calls: a polyline of 3 to MaxPoints points, a preserve set of its
\* indices, a tolerance of 1.5 nm or 200 nm
SimplifierCalls ==
    UNION { { [fn |-> "simplify", pc |-> "called", points |-> points,
               preserve_indices |-> preserve, tolerance_nm |-> tolerance,
               simplified_indices |-> << >>] :
                 points \in [1..n -> SimplifierPoints],
                 preserve \in SUBSET (0..(n - 1)),
                 tolerance \in {15, 2000} } :
            n \in 3..MaxPoints }

SimplifierInit ==
    /\ call \in SimplifierCalls
    /\ build = NewBuild
    /\ previous = NoPrevious
    /\ storage = [reserved |-> ReservedStates, capacity |-> 0, dangling |-> FALSE]
    /\ request = [start |-> Point(0, 0), goal |-> Point(0, 450),
                  departure_time_hours |-> 0, ship |-> DefaultShip,
                  settings |-> BaseSettings]
    /\ env = OpenSea
    /\ Idle

\* simplified_indices as solveInternal builds it around dpSimplifyRecursive,
\* which receives preserve_indices and does not read it
CallSimplifier ==
    /\ call.fn = "simplify" /\ call.pc = "called"
    /\ call' = [call EXCEPT
                    !.pc = "returned",
                    !.simplified_indices =
                        SimplifiedIndices(call.points, call.tolerance_nm)]
    /\ UNCHANGED solve_vars

SimplifierNext == CallSimplifier

SimplifierSpec == SimplifierInit /\ [][SimplifierNext]_vars

\* ------------------------------------------------------------
\* normalizeLongitude called directly, one iteration of its loops per step

\* a double so large that its neighbours are more than 720 apart (from 2^62
\* on): lon -= 360.0 and lon += 360.0 round back to lon
Huge == 2000000000

\* lon -= 360.0
SubtractTurn(lon) == IF Abs(lon) >= Huge THEN lon ELSE lon - 2 * PI

\* lon += 360.0
AddTurn(lon) == IF Abs(lon) >= Huge THEN lon ELSE lon + 2 * PI

\* x + 360.0 * k
ShiftTurns(x, k) == IF Abs(x) >= Huge THEN x ELSE x + 2 * PI * k

\* bound: the arguments are the multiples of 45 degrees up to MaxEighths
\* eighths of a turn either way
MaxEighths == 20

\* the calls: normalizeLongitude(x), then normalizeLongitude(x + 360 k)
NormalizeCalls ==
    { [fn |-> "normalizeLongitude", pc |-> "subtract", x |-> x, k |-> k,
       lon |-> x, values |-> << >>] :
          x \in {m * (PI \div 4) : m \in (-MaxEighths)..MaxEighths}
                    \cup {Huge, -Huge},
          k \in {-2, -1, 1, 2} }

NormalizeInit ==
    /\ call \in NormalizeCalls
    /\ build = NewBuild
    /\ previous = NoPrevious
    /\ storage = [reserved |-> ReservedStates, capacity |-> 0, dangling |-> FALSE]
    /\ request = [start |-> Point(0, 0), goal |-> Point(0, 450),
                  departure_time_hours |-> 0, ship |-> DefaultShip,
                  settings |-> BaseSettings]
    /\ env = OpenSea
    /\ Idle

\* while (lon >= 180.0) lon -= 360.0;
NormalizeSubtract ==
    /\ call.fn = "normalizeLongitude" /\ call.pc = "subtract"
    /\ call.lon >= PI
    /\ call' = [call EXCEPT !.lon = SubtractTurn(call.lon)]
    /\ UNCHANGED solve_vars

\* while (lon < -180.0) lon += 360.0;
NormalizeAdd ==
    /\ call.fn = "normalizeLongitude"
    /\ \/ call.pc = "subtract" /\ ~(call.lon >= PI)
       \/ call.pc = "add"
    /\ call.lon < -PI
    /\ call' = [call EXCEPT !.lon = AddTurn(call.lon), !.pc = "add"]
    /\ UNCHANGED solve_vars

\* return lon; the second call follows the first
NormalizeReturn ==
    /\ call.fn = "normalizeLongitude"
    /\ \/ call.pc = "subtract" /\ ~(call.lon >= PI)
       \/ call.pc = "add"
    /\ ~(call.lon < -PI)
    /\ call' = [call EXCEPT
                    !.values = Append(call.values, call.lon),
                    !.lon = ShiftTurns(call.x, call.k),
                    !.pc = IF Len(call.values) = 0 THEN "subtract"
                           ELSE "returned"]
    /\ UNCHANGED solve_vars

NormalizeNext == NormalizeSubtract \/ NormalizeAdd \/ NormalizeReturn

\* a call that is running takes its next step
NormalizeSpec ==
    NormalizeInit /\ [][NormalizeNext]_vars /\ WF_vars(NormalizeNext)

\* ------------------------------------------------------------ properties

\* the stored states other than the start, as positions of the states vector
NonRoot == 2..Len(states)

ParentOf(i) == states[states[i].parent_index + 1]

\* a pass has returned its Result
Returned == pc \in {"returned", "done"}

\* C1: every stored state's segment from its parent was sampled at
\* s = 1 .. n-1, n = clamp(ceil(d/2), 2, 50), and every such sample has
\* depth_m >= draft_m + safety_depth_buffer_m and depth_m /= 0; so no
\* waypoint of a result has an intermediate sample on land.
C1_IntermediateSamplesDeep ==
    \A i \in NonRoot :
        LET parent == ParentOf(i)
            d == states[i].cumulative_distance_nm - parent.cumulative_distance_nm
            dt == states[i].time_hours - parent.time_hours
        IN  \A k \in 1..(Max2(2, Min2(CeilDiv(d, 20), 50)) - 1) :
                LET e == MidSample(parent.position, parent.time_hours,
                                   states[i].heading_deg, d, dt, k)
                IN  e.depth_m >= MinDepth /\ e.depth_m /= 0

\* a candidate whose destination is deep enough was rejected for one of its
\* intermediate samples, and a state whose segment has 4 or more samples is
\* stored
C1_Witness ==
    /\ last.outcome = "intermediate"
    /\ last.dst_depth >= MinDepth
    /\ \E i \in NonRoot :
           states[i].cumulative_distance_nm
               - ParentOf(i).cumulative_distance_nm > 80

\* C2: in the fine pass every stored state other than the start, hence every
\* waypoint of the result other than the start, is at a cross-track distance
\* < corridor_width_nm from a segment of the polyline of the coarse waypoints.
C2_FinePassInCorridor ==
    pass = "fine" =>
        LET line == coarse_result.waypoints
            Inside(p) ==
                \E k \in 1..(Len(line) - 1) :
                    crossTrackDistance(p, toGeoPoint(line[k]), toGeoPoint(line[k + 1]))
                        < request.settings.corridor_width_nm
        IN  /\ \A i \in NonRoot : Inside(states[i].position)
            /\ Returned =>
                   \A k \in 2..Len(result.waypoints) :
                       Inside(toGeoPoint(result.waypoints[k]))

\* a fine pass returned a route of 3 or more waypoints after the corridor
\* gate rejected a candidate
C2_Witness ==
    /\ pass = "fine" /\ pc = "done"
    /\ "corridor" \in history
    /\ Len(result.waypoints) >= 3

\* C3: every stored state whose parent has a heading differs from it by at
\* most ship.max_heading_change_deg; the start is the only state without a
\* heading, so only its children are exempt.
C3_HeadingChangeBounded ==
    /\ Len(states) >= 1 => states[1].heading_deg = NaN
    /\ \A i \in NonRoot :
           /\ states[i].heading_deg /= NaN
           /\ states[i].parent_index /= 0 =>
                  headingDifference(ParentOf(i).heading_deg, states[i].heading_deg)
                      <= request.ship.max_heading_change_deg

\* a candidate was rejected for its turn, and a state two legs from the start
\* that turned is stored
C3_Witness ==
    /\ "turn" \in history
    /\ \E i \in NonRoot :
           /\ states[i].parent_index /= 0
           /\ ParentOf(i).heading_deg /= states[i].heading_deg

\* C4: time_hours strictly increases from every stored state's parent to the
\* state, in layers stepped by the clamped time_step_minutes and in layers
\* stepped adaptively; so it strictly increases along waypoints_raw.
C4_TimeStrictlyIncreases ==
    /\ \A i \in NonRoot : ParentOf(i).time_hours < states[i].time_hours
    /\ Returned =>
           \A k \in 1..(Len(result.waypoints_raw) - 1) :
               result.waypoints_raw[k].time_hours
                   < result.waypoints_raw[k + 1].time_hours

\* an adaptive pass whose max_time_step_minutes is below its
\* min_time_step_minutes returned a route whose legs took different times,
\* after a layer whose step moved no candidate 0.05 nm
C4_Witness ==
    /\ pc = "done"
    /\ settings.enable_adaptive_sampling
    /\ settings.max_time_step_minutes < settings.min_time_step_minutes
    /\ "short" \in history
    /\ Len(result.waypoints_raw) >= 3
    /\ result.waypoints_raw[2].time_hours - result.waypoints_raw[1].time_hours
           /= result.waypoints_raw[3].time_hours - result.waypoints_raw[2].time_hours

\* C5: any two distinct states of next_frontier are more than the clamped
\* merge_radius_nm apart, during and at the end of the fan-out of a layer and
\* after the beam prune.
C5_MergeRadiusSeparation ==
    \A a \in 1..Len(next_frontier) : \A b \in 1..Len(next_frontier) :
        a < b =>
            greatCircleDistance(states[next_frontier[a] + 1].position,
                                states[next_frontier[b] + 1].position)
                > settings.merge_radius_nm

\* a layer that dropped a candidate as dominated was pruned by the beam and
\* two or more states survive
C5_Witness ==
    /\ pc = "layer"
    /\ "dominated" \in history /\ "pruned" \in history
    /\ Len(next_frontier) >= 2

\* C6: state 0 has parent_index -1, every other state has
\* 0 <= parent_index < its own index, and the chain of parent_index from any
\* state ends at state 0 with strictly increasing indices.
C6_ParentForest ==
    /\ Len(states) >= 1 => states[1].parent_index = -1
    /\ \A i \in NonRoot :
           /\ 0 <= states[i].parent_index
           /\ states[i].parent_index < i - 1
    /\ \A i \in NonRoot :
           LET chain == Backtrack(i - 1)
           IN  /\ chain[1] = 0
               /\ \A k \in 1..(Len(chain) - 1) : chain[k] < chain[k + 1]

\* a state whose parent is not the start is stored
C6_Witness ==
    /\ Len(states) >= 4
    /\ \E i \in NonRoot : states[i].parent_index > 0

\* C7: a non-empty result starts at the start position and ends at the
\* terminal state's position, index_map[0] = 0 and index_map[last] = N - 1, N
\* the length of waypoints_raw, with or without simplification.
C7_EndpointsPreserved ==
    (Returned /\ Len(result.waypoints) > 0) =>
        LET n == Len(result.waypoints_raw)
            l == Len(result.waypoints)
        IN  /\ toGeoPoint(result.waypoints[1]) = request.start
            /\ toGeoPoint(result.waypoints[l]) = states[FinalIndex + 1].position
            /\ Len(result.index_map) = l
            /\ result.index_map[1] = 0
            /\ result.index_map[l] = n - 1

\* simplification ran and dropped a waypoint
C7_Witness ==
    /\ pc = "done"
    /\ pass_tolerance > 0
    /\ Len(result.waypoints) < Len(result.waypoints_raw)

\* C8: when simplification runs, every raw waypoint strictly between two
\* consecutive retained indices is within simplify_tolerance_nm, by
\* crossTrackDistance, of the segment between them.
C8_SimplifyTolerance ==
    (Returned /\ pass_tolerance > 0 /\ Len(result.waypoints_raw) > 2) =>
        \A k \in 1..(Len(result.index_map) - 1) :
            \A m \in (result.index_map[k] + 1)..(result.index_map[k + 1] - 1) :
                crossTrackDistance(
                    toGeoPoint(result.waypoints_raw[m + 1]),
                    toGeoPoint(result.waypoints_raw[result.index_map[k] + 1]),
                    toGeoPoint(result.waypoints_raw[result.index_map[k + 1] + 1]))
                    <= pass_tolerance

\* simplification kept an interior waypoint and dropped another
C8_Witness ==
    /\ Returned
    /\ pass_tolerance > 0
    /\ Len(result.waypoints) > 2
    /\ Len(result.waypoints) < Len(result.waypoints_raw)

\* C9: a candidate whose destination wave height exceeds
\* ship.max_wave_height_m reaches the merge step unless one of the other gates
\* (bearing window, turn, distance, intermediate depth, corridor, destination
\* depth) stops it, and every stored state whose destination wave height
\* exceeds the cap carries HIGH_WAVE.
C9_WaveHazardRecordedOnly ==
    /\ (last.outcome \notin {"none", "stored", "replaced", "dominated"}
        /\ last.dst_wave > request.ship.max_wave_height_m) =>
           LET current == states[last.idx + 1]
           IN  \/ OutsideBearingWindow(current, last.heading)
               \/ TurnTooSharp(current, last.heading)
               \/ DistanceTooSmall(last.distance_nm)
               \/ IntersectsLandOrShallow(current, last.heading,
                                          last.distance_nm, last.dt)
               \/ /\ use_corridor
                  /\ ~InCorridor(advancePosition(current.position, last.heading,
                                                 last.distance_nm))
               \/ last.dst_depth < MinDepth
    /\ \A i \in NonRoot :
           Sampler(states[i].position.lat, states[i].position.lon,
                   states[i].time_hours).wave_height_m
               > request.ship.max_wave_height_m
           => states[i].hazard_flags = HIGH_WAVE

\* a candidate whose destination wave height exceeds the cap is stored with
\* HIGH_WAVE, its parent being free of the flag
C9_Witness ==
    /\ last.outcome = "stored"
    /\ last.dst_wave > request.ship.max_wave_height_m
    /\ states[last.index + 1].hazard_flags = HIGH_WAVE
    /\ states[last.idx + 1].hazard_flags = NONE

\* C10: the diagnostics of a result repeat the terminal state's
\* cumulative_distance_nm, time_hours, max_wave_height_m and hazard_flags.
C10_DiagnosticsMatchTerminal ==
    Returned =>
        LET final_state == states[FinalIndex + 1]
        IN  /\ result.diagnostics.total_distance_nm = final_state.cumulative_distance_nm
            /\ result.diagnostics.eta_hours = final_state.time_hours
            /\ result.diagnostics.max_wave_height_m = final_state.max_wave_height_m
            /\ result.diagnostics.hazard_flags = final_state.hazard_flags

\* C11: when the main loop ends with no state within goal_radius_nm of the
\* goal, the result has reached_goal = false and its path ends at
\* closest_index, a state whose distance to the goal is minimal among all the
\* states of the solve, the start included.
C11_FallbackToClosest ==
    (Returned
     /\ \A i \in 1..Len(states) :
            greatCircleDistance(states[i].position, request.goal)
                > settings.goal_radius_nm) =>
        LET n == Len(result.waypoints_raw)
        IN  /\ ~result.diagnostics.reached_goal
            /\ n >= 1
            /\ result.waypoints_raw[n] = WaypointOf(states[closest_index + 1])
            /\ \A i \in 1..Len(states) :
                   greatCircleDistance(states[closest_index + 1].position,
                                       request.goal)
                       <= greatCircleDistance(states[i].position, request.goal)

\* the step limit ended the loop with the frontier not empty, the goal not
\* reached, and the closest state is neither the start nor the last one stored
C11_Witness ==
    /\ pc = "done"
    /\ ~goal_reached
    /\ Len(frontier) > 0 /\ step_count >= max_steps
    /\ closest_index > 0
    /\ closest_index < Len(states) - 1

\* C12: when no candidate state is emitted during a solve (every extension of
\* the start is rejected), the result is empty: waypoints, waypoints_raw and
\* index_map are all empty.
C12_EmptyResultWhenNothingEmitted ==
    (pc = "done" /\ Len(states) = 1) =>
        /\ result.waypoints = << >>
        /\ result.waypoints_raw = << >>
        /\ result.index_map = << >>

\* C13: solve starts with a coarse pass exactly if
\* enable_hierarchical_routing holds and the start is more than
\* long_route_threshold_nm from the goal; a fine pass starts only from a
\* returned coarse pass, with the caller's settings (clamped as in any pass),
\* the corridor gate on, the coarse waypoints in order as centerline and
\* corridor_width_nm as width; otherwise one pass without corridor runs and
\* solve returns its result.
C13_HierarchicalDispatch ==
    [][ /\ pc = "solve" =>
               /\ pass' \in {"coarse", "standard"}
               /\ pass' = "coarse" <=>
                      /\ request.settings.enable_hierarchical_routing
                      /\ greatCircleDistance(request.start, request.goal)
                             > request.settings.long_route_threshold_nm
               /\ pass' = "standard" => ~use_corridor'
        /\ (pass' = "coarse" /\ pass /= "coarse") => pc = "solve"
        /\ (pass' = "fine" /\ pass /= "fine") =>
               /\ pass = "coarse" /\ pc = "returned"
               /\ settings' = ClampSettings(request.settings)
               /\ pass_tolerance' = request.settings.simplify_tolerance_nm
               /\ use_corridor'
               /\ corridor'.width_nm = request.settings.corridor_width_nm
               /\ corridor'.centerline =
                      [k \in 1..Len(result.waypoints) |->
                           toGeoPoint(result.waypoints[k])]
        /\ pass = "standard" =>
               /\ pass' = "standard"
               /\ pc = "returned" => (pc' = "done" /\ result' = result)
        /\ pass = "fine" => pass' = "fine"
      ]_vars

\* an adaptive fine pass returned, after a coarse pass whose waypoints are its
\* centerline
C13_Witness ==
    /\ pass = "fine" /\ pc = "done"
    /\ settings.enable_adaptive_sampling
    /\ settings.time_step_minutes /= 90
    /\ use_corridor
    /\ Len(corridor.centerline) >= 2
    /\ coarse_result.is_coarse_route
    /\ Len(result.waypoints_raw) > Len(coarse_result.waypoints_raw)

\* C14: when the coarse pass returns fewer than 2 waypoints no fine pass
\* runs: solve runs one pass with the caller's settings and no corridor and
\* returns its result; no fine pass starts with a centerline of fewer than 2
\* points.
C14_CoarseFallback ==
    [][ /\ (pass = "coarse" /\ pc = "returned" /\ Len(result.waypoints) < 2) =>
               /\ pass' = "fallback"
               /\ settings' = ClampSettings(request.settings)
               /\ pass_tolerance' = request.settings.simplify_tolerance_nm
               /\ ~use_corridor'
               /\ corridor'.centerline = << >>
        /\ pass = "fallback" =>
               /\ pass' = "fallback"
               /\ pc = "returned" => (pc' = "done" /\ result' = result)
        /\ pass' = "fine" =>
               /\ Len(corridor'.centerline) >= 2
               /\ Len(coarse_result'.waypoints) >= 2
      ]_vars

\* solve returned a route of the fallback pass after a coarse pass of one
\* waypoint
C14_Witness ==
    /\ pass = "fallback" /\ pc = "done"
    /\ Len(coarse_result.waypoints) < 2
    /\ ~use_corridor
    /\ Len(result.waypoints) >= 2

\* C15: the settings a pass works with are in range whatever the request
\* holds: time_step_minutes in [15, 120], heading_count in [8, 72],
\* merge_radius_nm in [5, 40], goal_radius_nm in [10, 60], max_hours in
\* [12, 720], complexity_threshold in (0, 1].
C15_SettingsClamped ==
    pass /= "none" =>
        /\ 15 <= settings.time_step_minutes /\ settings.time_step_minutes <= 120
        /\ 8 <= settings.heading_count /\ settings.heading_count <= 72
        /\ 50 <= settings.merge_radius_nm /\ settings.merge_radius_nm <= 400
        /\ 100 <= settings.goal_radius_nm /\ settings.goal_radius_nm <= 600
        /\ 12 <= settings.max_hours /\ settings.max_hours <= 720
        /\ 0 < settings.complexity_threshold
        /\ settings.complexity_threshold <= 1000

\* C16: every pass works under the step limit
\* max_steps = floor(max_hours / (min_time_step_minutes / 60)) + 1: the limit
\* is defined, the pass runs on to its return, and step_count <= max_steps.
C16_StepLimit ==
    pass /= "none" =>
        /\ pc /= "trap"
        /\ settings.min_time_step_minutes /= 0
        /\ max_steps =
               (IF settings.min_time_step_minutes > 0
                THEN (settings.max_hours * 60) \div settings.min_time_step_minutes
                ELSE -CeilDiv(settings.max_hours * 60,
                              -settings.min_time_step_minutes)) + 1
        /\ step_count <= max_steps

\* C17: in every result index_map is as long as waypoints, strictly
\* increasing, with every entry in [0, length of waypoints_raw), and
\* waypoints[k] = waypoints_raw[index_map[k]] for every k.
C17_IndexMapSubsequence ==
    Returned =>
        LET n == Len(result.waypoints_raw)
            l == Len(result.waypoints)
        IN  /\ Len(result.index_map) = l
            /\ \A k \in 1..l :
                   /\ 0 <= result.index_map[k] /\ result.index_map[k] < n
                   /\ result.waypoints[k] = result.waypoints_raw[result.index_map[k] + 1]
            /\ \A k \in 1..(l - 1) : result.index_map[k] < result.index_map[k + 1]

\* a route of 3 or more waypoints whose index_map skips a raw index
C17_Witness ==
    /\ pc = "done"
    /\ Len(result.index_map) >= 3
    /\ \E k \in 1..(Len(result.index_map) - 1) :
           result.index_map[k + 1] > result.index_map[k] + 1

\* C18: the simplifier retains every index of the preserve set it is given,
\* not only 0 and N - 1, whatever the tolerance.
C18_PreserveSetRetained ==
    (call.fn = "simplify" /\ call.pc = "returned") =>
        call.preserve_indices \subseteq Range(call.simplified_indices)

\* C19: growth of the state vector never invalidates a state in use: every
\* read of the frontier state being fanned out gives that state, also after
\* an append that outgrew the reserved capacity, and no such read ends the
\* program.
C19_CurrentSurvivesGrowth ==
    /\ pc /= "fault"
    /\ (pass /= "none" /\ last.outcome /= "none") =>
           last.current = states[last.idx + 1]


\* C20: when the beam prune applies, the sort of next_frontier by
\* f = cumulative_distance_nm + greatCircleDistance(position, goal) is
\* stable: of two states with equal f, if the one inserted later survives
\* the cut at beam_width, the one inserted earlier survives too and is
\* ordered before it
C20_BeamSortStable ==
    [][ (pc = "fanout" /\ fpos > Len(frontier) /\ pc' \in {"finish", "layer"}
            /\ BeamApplies) =>
            \A a, b \in 1..Len(next_frontier) :
                (/\ a < b
                 /\ BeamCost(next_frontier[a]) = BeamCost(next_frontier[b])
                 /\ next_frontier[b] \in Range(next_frontier')) =>
                    \E i, j \in 1..Len(next_frontier') :
                        /\ i < j
                        /\ next_frontier'[i] = next_frontier[a]
                        /\ next_frontier'[j] = next_frontier[b] ]_vars

C22_AccumulatorsMonotone ==
    \A i \in NonRoot :
        LET parent == ParentOf(i)
        IN  /\ 2 * (states[i].cumulative_distance_nm
                        - parent.cumulative_distance_nm) >= 1
            /\ states[i].max_wave_height_m >= parent.max_wave_height_m
            /\ parent.hazard_flags = HIGH_WAVE =>
                   states[i].hazard_flags = HIGH_WAVE

\* a state is stored in water calmer than its parent's peak and within the
\* ship's wave cap, its parent carrying HIGH_WAVE
C22_Witness ==
    \E i \in NonRoot :
        LET parent == ParentOf(i)
            e == Sampler(states[i].position.lat, states[i].position.lon,
                         states[i].time_hours)
        IN  /\ parent.hazard_flags = HIGH_WAVE
            /\ e.wave_height_m < parent.max_wave_height_m
            /\ e.wave_height_m <= request.ship.max_wave_height_m

\* C23: for every finite x, normalizeLongitude(x) returns a value in
\* [-180, 180), and normalizeLongitude(x + 360 k) returns the same value for
\* every integer k.
C23_NormalizedLongitude ==
    <>(/\ call.fn = "normalizeLongitude" /\ call.pc = "returned"
       /\ \A n \in 1..Len(call.values) :
              -PI <= call.values[n] /\ call.values[n] < PI
       /\ call.values[1] = call.values[2])

\* C24: no layer is expanded after the first layer that stored a candidate
\* within the clamped goal_radius_nm of the goal: while the main loop runs
\* such a state belongs to the layer being fanned out.  The result then has
\* reached_goal = true and ends at a state of that layer within
\* goal_radius_nm of the goal whose time is the earliest of the states within
\* goal_radius_nm, whether or not the beam prune kept it in next_frontier.
C24_StopsAtFirstGoalLayer ==
    LET GoalStates ==
            {i \in NonRoot :
                greatCircleDistance(states[i].position, request.goal)
                    <= settings.goal_radius_nm}
    IN  /\ (pc \in {"layer", "fanout"} /\ GoalStates /= {}) =>
               /\ pc = "fanout"
               /\ \A i \in GoalStates : i - 1 \in Range(next_frontier)
        /\ (Returned /\ GoalStates /= {}) =>
               LET n == Len(result.waypoints_raw)
               IN  /\ result.diagnostics.reached_goal
                   /\ FinalIndex + 1 \in GoalStates
                   /\ result.waypoints_raw[n] = WaypointOf(states[FinalIndex + 1])
                   /\ \A i \in GoalStates :
                          /\ states[FinalIndex + 1].time_hours
                                 <= states[i].time_hours
                          /\ states[i].time_hours
                                 = states[FinalIndex + 1].time_hours =>
                                 FinalIndex + 1 <= i
                   /\ \A i \in NonRoot :
                          states[i].time_hours
                              <= states[FinalIndex + 1].time_hours

\* solve returned a route to a goal state that the beam prune had removed
\* from next_frontier, another state of the layer being within goal_radius_nm
\* too
C24_Witness ==
    /\ pc = "done"
    /\ goal_reached
    /\ "pruned" \in history
    /\ best_goal_index \notin Range(next_frontier)
    /\ \E i \in NonRoot :
           /\ i - 1 /= best_goal_index
           /\ greatCircleDistance(states[i].position, request.goal)
                  <= settings.goal_radius_nm

\* C25: with beam_width > 0 the frontier carried into every layer after the
\* first holds at most beam_width states, and no state the prune drops has a
\* strictly smaller f = cumulative_distance_nm + distance to the goal than a
\* state it keeps; with beam_width <= 0 the prune drops no state.
C25_BeamBound ==
    [][ LET f(i) == states[i + 1].cumulative_distance_nm
                        + greatCircleDistance(states[i + 1].position,
                                              request.goal)
            kept == Range(next_frontier')
            dropped == Range(next_frontier) \ kept
        IN  /\ (pc = "fanout" /\ pc' \in {"finish", "layer"}) =>
                   /\ kept \subseteq Range(next_frontier)
                   /\ \A d \in dropped : \A k \in kept : f(d) >= f(k)
                   /\ settings.beam_width <= 0 => next_frontier' = next_frontier
                   /\ settings.beam_width > 0 =>
                          Len(next_frontier') <= settings.beam_width
            /\ (/\ pass' /= "none" /\ settings'.beam_width > 0
                /\ \/ pc' = "layer" /\ step_count' >= 1
                   \/ pc' = "fanout" /\ step_count' >= 2) =>
                   Len(frontier') <= settings'.beam_width
      ]_vars

\* a layer after the first starts from a frontier of beam_width states, a
\* state of the layer before having been dropped for a cost above that of
\* every state kept
C25_Witness ==
    /\ pc = "fanout"
    /\ step_count >= 2
    /\ settings.beam_width > 0
    /\ "pruned" \in history
    /\ Len(frontier) = settings.beam_width
    /\ \E i \in NonRoot :
           /\ i - 1 \notin Range(frontier)
           /\ states[i].time_hours = states[frontier[1] + 1].time_hours
           /\ \A k \in Range(frontier) :
                  states[i].cumulative_distance_nm
                      + greatCircleDistance(states[i].position, request.goal)
                      > states[k + 1].cumulative_distance_nm
                            + greatCircleDistance(states[k + 1].position,
                                                  request.goal)

\* C26: with adaptive sampling, min_time_step_minutes <=
\* max_time_step_minutes and complexity_threshold in (0, 1], the step of a
\* layer after the first lies in [min_time_step_minutes,
\* max_time_step_minutes] and is non-increasing in the frontier's average
\* complexity: a higher average would not get a longer step, a lower one not
\* a shorter step; the first layer uses the clamped time_step_minutes.
C26_AdaptiveStepMonotone ==
    (/\ pc = "fanout"
     /\ settings.enable_adaptive_sampling
     /\ settings.min_time_step_minutes <= settings.max_time_step_minutes
     /\ 0 < settings.complexity_threshold
     /\ settings.complexity_threshold <= 1000) =>
        IF step_count = 1
        THEN delta_minutes = settings.time_step_minutes
        ELSE /\ settings.min_time_step_minutes <= delta_minutes
             /\ delta_minutes <= settings.max_time_step_minutes
             /\ \A a \in {50 * n : n \in 0..20} :
                    /\ a >= AverageComplexity =>
                           AdaptiveStepFor(a) <= delta_minutes
                    /\ a <= AverageComplexity =>
                           AdaptiveStepFor(a) >= delta_minutes

\* C27: no stored state other than the start, hence no waypoint other than
\* the start, lies on land: the sampler at the state's own position and time
\* returns depth_m /= 0, whatever the ship's draft_m and
\* safety_depth_buffer_m.
C27_NoWaypointOnLand ==
    /\ \A i \in NonRoot :
           Sampler(states[i].position.lat, states[i].position.lon,
                   states[i].time_hours).depth_m /= 0
    /\ Returned =>
           \A k \in 2..Len(result.waypoints) :
               Sampler(result.waypoints[k].lat, result.waypoints[k].lon,
                       result.waypoints[k].time_hours).depth_m /= 0

\* C28: no state of a solve has time_hours above departure_time_hours plus
\* the clamped max_hours, whatever time_step_minutes, min_time_step_minutes
\* and max_time_step_minutes are, with or without adaptive sampling.
C28_TimeWithinMaxHours ==
    pass /= "none" =>
        \A i \in 1..Len(states) :
            states[i].time_hours
                <= request.departure_time_hours + 60 * settings.max_hours

\* C29: the states of a layer all have the same time_hours, the time of the
\* layer before plus the layer's step; so the merge never finds a candidate
\* strictly earlier than an existing state of next_frontier: the replace
\* branch is never taken, no stored state is overwritten, and closest_index
\* and best_goal_index refer to the states they were set for.
C29_ReplaceNeverTaken ==
    [][ /\ (pass' /= "none" /\ pc' \in {"layer", "fanout", "finish"}) =>
               /\ \A a \in Range(frontier)', b \in Range(frontier)' :
                      states'[a + 1].time_hours = states'[b + 1].time_hours
               /\ pc' = "fanout" =>
                      \A a \in Range(frontier)', b \in Range(next_frontier)' :
                          states'[b + 1].time_hours
                              = states'[a + 1].time_hours + delta_minutes'
               /\ last'.outcome /= "replaced"
               /\ "replaced" \notin history'
               /\ closest_distance' =
                      greatCircleDistance(states'[closest_index' + 1].position,
                                          request.goal)
               /\ best_goal_index' /= -1 =>
                      /\ best_goal_arrival'
                             = states'[best_goal_index' + 1].time_hours
                      /\ greatCircleDistance(
                             states'[best_goal_index' + 1].position, request.goal)
                             <= settings'.goal_radius_nm
        /\ (pass' = pass /\ pass /= "none" /\ pc /= "returned") =>
               /\ Len(states') >= Len(states)
               /\ \A i \in 1..Len(states) : states'[i] = states[i]
      ]_vars

\* in a layer stepped adaptively a candidate was dropped as dominated by a
\* state of its own layer, the closest state being a stored one
C29_Witness ==
    /\ last.outcome = "dominated"
    /\ step_count >= 2
    /\ settings.enable_adaptive_sampling
    /\ delta_minutes /= settings.time_step_minutes
    /\ Len(next_frontier) >= 2
    /\ closest_index > 0

\* C30: the Result solve returns has is_coarse_route = false in every
\* dispatch branch (standard, fallback, fine); the flag is true only on the
\* coarse pass's intermediate result, which solve keeps to itself.
C30_ReturnedResultNotCoarse ==
    /\ pc = "done" =>
           /\ pass \in {"standard", "fallback", "fine"}
           /\ ~result.is_coarse_route
    /\ ~result.is_coarse_route
    /\ pass \in {"fallback", "fine"} => coarse_result.is_coarse_route
    /\ pass \in {"none", "standard", "coarse"} => ~coarse_result.is_coarse_route

\* solve returned the route of a fine pass, unmarked and longer than the
\* marked route of the coarse pass
C30_Witness ==
    /\ pc = "done" /\ pass = "fine"
    /\ coarse_result.is_coarse_route
    /\ ~result.is_coarse_route
    /\ Len(coarse_result.waypoints_raw) >= 2
    /\ Len(result.waypoints_raw) > Len(coarse_result.waypoints_raw)

====
